---- MODULE Spec2Model ----
(***************************************************************************)
(* Model of the wireproxy supervisor of extension.js: the module globals,  *)
(* the persisted wireproxy.conf, the http.proxy setting, the spawned child *)
(* processes with their observers and stability timers, and the jobs the   *)
(* Node event loop runs one at a time.                                     *)
(*                                                                         *)
(* Strings the code takes apart (paths, file contents, status texts) are   *)
(* sequences of tokens, so that parsing and formatting are computed.       *)
(***************************************************************************)
EXTENDS Naturals, Integers, Sequences, FiniteSets, TLC

\* ---------------------------------------------------------------- bounds
MaxSelections == 2
MaxProcs == MaxSelections + 1
MaxPathLen == 3      \* tokens of a path between its root and its extension

\* ------------------------------------------------------------- constants
EXTENSION_NAME == "WireGuard"
PROXY_PORT == 25345

NoProc == 0          \* wireproxyProcess === null
NoPath == <<>>       \* a null / empty path
NoCont == <<>>       \* a stopWireproxy() call nobody awaits
NoCode == -1         \* exit code null (terminated by a signal)
NoSignal == ""       \* signal null (terminated by exit)

PathA == <<"/", "home", "/", "a", ".conf">>
PathB == <<"/", "etc", "/", "b", ".conf">>
Paths == {PathA, PathB}

\* what a path may be made of: names, separators, and the two characters the
\* config file's syntax uses (a file name may hold either on POSIX systems)
PathTokens == {"a", "b", "/", "\"", "\n"}
Middles == UNION {[1..n -> PathTokens] : n \in 1..MaxPathLen}
\* the absolute .conf paths the file dialog can return, up to MaxPathLen
AnyPaths == {<<"/">> \o m \o <<".conf">> : m \in Middles}

ExitCodes == {0, 1}
Signals == {"SIGTERM", "SIGKILL"}
\* what the exit event may report: a code and no signal, or a signal and no code
ExitReports == {[code |-> c, signal |-> NoSignal] : c \in ExitCodes}
               \cup {[code |-> NoCode, signal |-> g] : g \in Signals}
\* child_process.spawn: a live child, a failure reported by the error event,
\* or a synchronous exception
SpawnOutcomes == {[kind |-> "ok", code |-> ""],
                  [kind |-> "fail", code |-> "ENOENT"],
                  [kind |-> "fail", code |-> "EACCES"],
                  [kind |-> "throw", code |-> "ENOMEM"]}

ProxyUrl == "http://127.0.0.1:" \o ToString(PROXY_PORT)

statusMessages ==
  [noConfig |-> <<"$(question)", EXTENSION_NAME, "No Config">>,
   error    |-> <<"$(error)", EXTENSION_NAME, "Error">>,
   starting |-> <<"$(sync~spin)", EXTENSION_NAME, "Starting...">>]

checkText(profileName) == <<"$(check)", EXTENSION_NAME, profileName>>

\* ------------------------------------------------------------- variables
VARIABLES
  wireproxyProcess,      \* handle held by the module: a process id or NoProc
  statusBar,             \* [exists, text, tooltip]
  currentWireguardPath,  \* in-memory endpoint path or NoPath
  isStopping,            \* intentional-stop flag
  configFile,            \* wireproxy.conf: [exists, content]
  proxy,                 \* the global http.proxy setting
  procs,                 \* every ChildProcess object created so far
  spawned,               \* number of ChildProcess objects created
  ready,                 \* selectConfig continuations whose await has resolved
  errorMessages,         \* showErrorMessage calls, in order
  host,                  \* "inactive", "active", "failed", "deactivated"
  selections,            \* file dialogs answered so far
  lastFile               \* what the last file dialog returned (NoPath: nothing)

vars == <<wireproxyProcess, statusBar, currentWireguardPath, isStopping,
          configFile, proxy, procs, spawned, ready, errorMessages, host,
          selections, lastFile>>

Pids == 1..MaxProcs

NoFile == [exists |-> FALSE, content |-> <<>>]
NoBar == [exists |-> FALSE, text |-> <<>>, tooltip |-> <<>>]

Unspawned ==
  [phase |-> "unspawned", killed |-> FALSE, isNewConfig |-> FALSE,
   profileName |-> <<>>, timer |-> "none", listeners |-> <<>>,
   errCode |-> "", exitCode |-> NoCode, signalCode |-> NoSignal]

\* the whole state as one record, so that a handler is a function on states
State ==
  [wireproxyProcess |-> wireproxyProcess, statusBar |-> statusBar,
   currentWireguardPath |-> currentWireguardPath, isStopping |-> isStopping,
   configFile |-> configFile, proxy |-> proxy, procs |-> procs,
   spawned |-> spawned, ready |-> ready, errorMessages |-> errorMessages,
   host |-> host, selections |-> selections, lastFile |-> lastFile]

Becomes(s) ==
  /\ wireproxyProcess' = s.wireproxyProcess
  /\ statusBar' = s.statusBar
  /\ currentWireguardPath' = s.currentWireguardPath
  /\ isStopping' = s.isStopping
  /\ configFile' = s.configFile
  /\ proxy' = s.proxy
  /\ procs' = s.procs
  /\ spawned' = s.spawned
  /\ ready' = s.ready
  /\ errorMessages' = s.errorMessages
  /\ host' = s.host
  /\ selections' = s.selections
  /\ lastFile' = s.lastFile

\* ------------------------------------------------------ string functions
RECURSIVE lastIndexOf(_, _, _)
lastIndexOf(seq, tok, i) ==
  IF i = 0 THEN 0
  ELSE IF seq[i] = tok THEN i ELSE lastIndexOf(seq, tok, i - 1)

RECURSIVE indexOf(_, _, _)
indexOf(seq, tok, i) ==
  IF i > Len(seq) THEN 0
  ELSE IF seq[i] = tok THEN i ELSE indexOf(seq, tok, i + 1)

\* path.basename(wireguardPath, ".conf"), or "" for a null path
getProfileName(wireguardPath) ==
  IF wireguardPath = NoPath THEN <<>>
  ELSE LET slash == lastIndexOf(wireguardPath, "/", Len(wireguardPath))
           base == SubSeq(wireguardPath, slash + 1, Len(wireguardPath))
       IN IF Len(base) > 1 /\ base[Len(base)] = ".conf"
          THEN SubSeq(base, 1, Len(base) - 1)
          ELSE base

\* the text updateConfig writes
configText(wireguardPath) ==
  <<"WGConfig = \"">> \o wireguardPath
    \o <<"\"", "\n", "[http]", "\n",
         "BindAddress = 127.0.0.1:" \o ToString(PROXY_PORT)>>

\* /^WGConfig = "(.*)"/m on the line that starts at token i: the greedy
\* group ends at the last quote of that line
matchLine(content, i) ==
  LET nl == indexOf(content, "\n", i)
      eol == IF nl = 0 THEN Len(content) ELSE nl - 1
      line == SubSeq(content, i, eol)
      q == IF Len(line) = 0 THEN 0 ELSE lastIndexOf(line, "\"", Len(line))
  IN [found |-> Len(line) > 0 /\ line[1] = "WGConfig = \"" /\ q > 1,
      group |-> IF q > 1 THEN SubSeq(line, 2, q - 1) ELSE <<>>,
      next |-> IF nl = 0 THEN 0 ELSE nl + 1]

RECURSIVE matchFrom(_, _)
matchFrom(content, i) ==
  IF i = 0 \/ i > Len(content) THEN NoPath
  ELSE LET m == matchLine(content, i)
       IN IF m.found THEN m.group ELSE matchFrom(content, m.next)

\* null (NoPath) when the file cannot be read or has no WGConfig line
getWireguardPath(file) ==
  IF ~file.exists THEN NoPath ELSE matchFrom(file.content, 1)

getStatusFromText(text) ==
  CASE text[1] = "$(check)" -> "Connected"
    [] text[1] = "$(question)" -> "No Config"
    [] text[1] = "$(error)" -> "Error"
    [] text[1] = "$(sync~spin)" -> "Starting"
    [] OTHER -> "Unknown"

updateTooltip(s) ==
  IF s.statusBar.exists
  THEN [s EXCEPT !.statusBar.tooltip =
          <<"Status: " \o getStatusFromText(s.statusBar.text),
            "Wireproxy port: " \o ToString(PROXY_PORT)>>]
  ELSE s

\* statusBar.text = text; updateTooltip();
setStatus(s, text) == updateTooltip([s EXCEPT !.statusBar.text = text])

\* ------------------------------------------------------------ ConfigStore
updateConfig(s, wireguardPath) ==
  [s EXCEPT !.configFile = [exists |-> TRUE, content |-> configText(wireguardPath)],
            !.currentWireguardPath = wireguardPath]

clearProxy(s) == [s EXCEPT !.proxy = ""]

resetConfig(s) ==
  clearProxy(setStatus([s EXCEPT !.configFile = NoFile,
                                 !.currentWireguardPath = NoPath],
                       statusMessages.noConfig))

\* ------------------------------------------------------ ProcessSupervisor
\* subprocess.kill("SIGTERM"): sets .killed only when the signal was delivered.
\* A running child receives it; a child whose exit or error event has been
\* emitted has no handle left; for a child whose spawn failed and whose error
\* event is still queued the result depends on the platform (killOk).
kill(p, killOk) ==
  CASE p.phase = "running" -> TRUE
    [] p.phase = "spawnfail" -> killOk
    [] OTHER -> FALSE

\* cont: the path of the selectConfig call awaiting this stop, or NoCont
stopWireproxy(s, cont, killOk) ==
  LET h == s.wireproxyProcess IN
  IF h # NoProc /\ ~s.procs[h].killed
  THEN [s EXCEPT !.isStopping = TRUE,
                 !.procs[h].killed = kill(s.procs[h], killOk),
                 !.procs[h].listeners = Append(@, cont)]
  ELSE IF cont = NoCont THEN s ELSE [s EXCEPT !.ready = Append(@, cont)]

showErrorMessage(s, pid, kind) ==
  [s EXCEPT !.errorMessages = Append(@, [proc |-> pid, kind |-> kind])]

handleError(s, pid, code, isNewConfig, killOk) ==
  LET s1 == showErrorMessage(s, pid,
              IF code = "ENOENT" THEN "not installed" ELSE "failed to start")
  IN IF isNewConfig THEN resetConfig(s1)
     ELSE stopWireproxy(setStatus(s1, statusMessages.error), NoCont, killOk)

startWireproxy(s, profileName, isNewConfig, outcome, killOk) ==
  LET s1 == stopWireproxy(s, NoCont, killOk)
      s2 == [s1 EXCEPT !.proxy = ProxyUrl]
      n == s.spawned + 1
  IN IF outcome.kind = "throw"
     THEN handleError(s2, NoProc, outcome.code, isNewConfig, killOk)
     ELSE [s2 EXCEPT
             !.wireproxyProcess = n,
             !.spawned = n,
             !.procs[n] =
               [phase |-> IF outcome.kind = "ok" THEN "running" ELSE "spawnfail",
                killed |-> FALSE, isNewConfig |-> isNewConfig,
                profileName |-> profileName, timer |-> "armed",
                listeners |-> <<>>, errCode |-> outcome.code,
                exitCode |-> NoCode, signalCode |-> NoSignal]]

\* the setTimeout callback without its status update for a live new config
stabilityTimerKeepsStatus(s, pid) ==
  LET p == s.procs[pid]
      h == s.wireproxyProcess
  IN IF h # NoProc /\ ~s.procs[h].killed THEN s
     ELSE IF p.isNewConfig THEN resetConfig(s)
     ELSE stopWireproxy(setStatus(s, statusMessages.error), NoCont, FALSE)

\* the setTimeout callback of the start that created process pid
stabilityTimer(s, pid) ==
  LET p == s.procs[pid]
      h == s.wireproxyProcess
  IN IF h # NoProc /\ ~s.procs[h].killed
     THEN IF s.statusBar.exists /\ p.isNewConfig
          THEN setStatus(s, checkText(p.profileName))
          ELSE s
     ELSE IF p.isNewConfig THEN resetConfig(s)
     ELSE stopWireproxy(setStatus(s, statusMessages.error), NoCont, FALSE)

\* the "exit" observer of process pid
exitObserver(s, pid, code, signal) ==
  LET p == s.procs[pid] IN
  IF s.isStopping /\ signal = "SIGTERM" THEN s
  ELSE IF code = 0
  THEN IF s.statusBar.exists /\ p.isNewConfig
       THEN setStatus(s, checkText(p.profileName))
       ELSE s
  ELSE LET s1 == showErrorMessage(s, pid, "exited")
           s2 == IF p.isNewConfig THEN resetConfig(s1)
                 ELSE setStatus(s1, statusMessages.error)
       IN stopWireproxy(s2, NoCont, FALSE)

\* the "close" listeners stopWireproxy registered on process pid, in order;
\* each resolves its promise, which readies the selectConfig awaiting it
RECURSIVE continuations(_)
continuations(listeners) ==
  IF listeners = <<>> THEN <<>>
  ELSE (IF Head(listeners) = NoCont THEN <<>> ELSE <<Head(listeners)>>)
         \o continuations(Tail(listeners))

closeListeners(s, pid) ==
  LET ls == s.procs[pid].listeners IN
  IF ls = <<>> THEN s
  ELSE clearProxy([s EXCEPT !.wireproxyProcess = NoProc,
                            !.isStopping = FALSE,
                            !.procs[pid].listeners = <<>>,
                            !.ready = @ \o continuations(ls)])

\* ------------------------------------------------------- TunnelController
\* selectConfig without the comparison with the current path
selectConfigAlwaysRestarts(s, file) ==
  IF file = NoPath THEN s ELSE stopWireproxy(s, file, FALSE)

\* selectConfig up to its await
selectConfig(s, file) ==
  IF file = NoPath \/ file = s.currentWireguardPath THEN s
  ELSE stopWireproxy(s, file, FALSE)

\* selectConfig after "await stopWireproxy()"
selectConfigResume(s, newWireguardPath, outcome, killOk) ==
  startWireproxy(setStatus(updateConfig(s, newWireguardPath), statusMessages.starting),
                 getProfileName(newWireguardPath), TRUE, outcome, killOk)

\* exports.activate. A synchronous spawn exception reaches handleError while
\* statusBar is still null: the assignment to statusBar.text throws and
\* activation is abandoned after the message and the proxy update.
activate(s, outcome) ==
  LET cur == getWireguardPath(s.configFile)
      s1 == IF s.configFile.exists THEN [s EXCEPT !.currentWireguardPath = cur] ELSE s
      starts == s.configFile.exists /\ cur # NoPath
  IN IF starts /\ outcome.kind = "throw"
     THEN [showErrorMessage([s1 EXCEPT !.proxy = ProxyUrl], NoProc, "failed to start")
             EXCEPT !.host = "failed"]
     ELSE LET s2 == IF starts
                    THEN startWireproxy(s1, getProfileName(cur), FALSE, outcome, FALSE)
                    ELSE s1
              text == IF s2.currentWireguardPath # NoPath
                      THEN checkText(getProfileName(s2.currentWireguardPath))
                      ELSE statusMessages.noConfig
          IN setStatus([s2 EXCEPT !.statusBar.exists = TRUE, !.host = "active"], text)

deactivate(s) == [stopWireproxy(s, NoCont, FALSE) EXCEPT !.host = "deactivated"]

\* ------------------------------------------------------------ event loop
\* Node runs one job at a time: promise continuations first, then the error
\* event of a failed spawn (queued with process.nextTick), then timers,
\* process events and user actions in any order.
ErrorPending(pid) == procs[pid].phase = "spawnfail"
Idle == ready = <<>> /\ \A pid \in Pids : ~ErrorPending(pid)

Init ==
  /\ wireproxyProcess = NoProc
  /\ statusBar = NoBar
  /\ currentWireguardPath = NoPath
  /\ isStopping = FALSE
  /\ configFile \in {NoFile} \cup {[exists |-> TRUE, content |-> configText(p)] : p \in Paths}
  /\ proxy = ""
  /\ procs = [pid \in Pids |-> Unspawned]
  /\ spawned = 0
  /\ ready = <<>>
  /\ errorMessages = <<>>
  /\ host = "inactive"
  /\ selections = 0
  /\ lastFile = NoPath

Activate ==
  /\ host = "inactive"
  /\ \E outcome \in SpawnOutcomes : Becomes(activate(State, outcome))

Deactivate ==
  /\ host = "active"
  /\ Idle
  /\ Becomes(deactivate(State))

\* the file dialog of a wireproxy.configure command returns file (NoPath: cancelled)
SelectConfig ==
  /\ host = "active"
  /\ Idle
  /\ selections < MaxSelections
  /\ \E file \in Paths \cup {NoPath} :
       Becomes(selectConfig([State EXCEPT !.selections = @ + 1,
                                          !.lastFile = file], file))

ResumeSelect ==
  /\ ready # <<>>
  /\ \E outcome \in SpawnOutcomes, killOk \in BOOLEAN :
       Becomes(selectConfigResume([State EXCEPT !.ready = Tail(@)], Head(ready),
                                  outcome, killOk))

\* the "error" event of a child whose spawn failed
ProcError(pid) ==
  /\ ready = <<>>
  /\ ErrorPending(pid)
  /\ \A q \in Pids : q < pid => ~ErrorPending(q)
  /\ Becomes(handleError([State EXCEPT !.procs[pid].phase = "errored"], pid,
                         procs[pid].errCode, procs[pid].isNewConfig, FALSE))

\* a running child terminates and its "exit" event is emitted
ProcExit(pid) ==
  /\ Idle
  /\ procs[pid].phase = "running"
  /\ \E r \in ExitReports :
       Becomes(exitObserver([State EXCEPT !.procs[pid].phase = "exited",
                                          !.procs[pid].exitCode = r.code,
                                          !.procs[pid].signalCode = r.signal],
                            pid, r.code, r.signal))

\* the "close" event, after "exit" or "error"
ProcClose(pid) ==
  /\ Idle
  /\ procs[pid].phase \in {"exited", "errored"}
  /\ Becomes(closeListeners([State EXCEPT !.procs[pid].phase = "closed"], pid))

\* timers of equal delay fire in the order they were armed
TimerFire(pid) ==
  /\ Idle
  /\ procs[pid].timer = "armed"
  /\ \A q \in Pids : q < pid => procs[q].timer # "armed"
  /\ Becomes(stabilityTimer([State EXCEPT !.procs[pid].timer = "fired"], pid))

Next ==
  \/ Activate
  \/ Deactivate
  \/ SelectConfig
  \/ ResumeSelect
  \/ \E pid \in Pids : ProcError(pid)
  \/ \E pid \in Pids : ProcExit(pid)
  \/ \E pid \in Pids : ProcClose(pid)
  \/ \E pid \in Pids : TimerFire(pid)

Spec == Init /\ [][Next]_vars

\* Every queued job runs and every timer fires: continuations and error events
\* are already queued, and setTimeout callbacks run once their delay is over.
\* This is weak fairness of ResumeSelect, ProcError and TimerFire, written with
\* the enabling condition of each spelled out ([]<>~enabled \/ []<><<A>>_vars).
ResumeEnabled == ready # <<>>
ErrorEnabled == ready = <<>> /\ \E pid \in Pids : ErrorPending(pid)
TimerEnabled == Idle /\ \E pid \in Pids : procs[pid].timer = "armed"

FairSpec ==
  /\ Spec
  /\ ([]<>(~ResumeEnabled) \/ []<><<ResumeSelect>>_vars)
  /\ ([]<>(~ErrorEnabled) \/ []<><<\E pid \in Pids : ProcError(pid)>>_vars)
  /\ ([]<>(~TimerEnabled) \/ []<><<\E pid \in Pids : TimerFire(pid)>>_vars)

\* ---------------------------------------------------- ConfigStore alone
\* The persisted file under write (updateConfig) and clear (resetConfig)
\* with any path the dialog can return; the extension is active with no
\* config and no process.
ConfigInit ==
  /\ wireproxyProcess = NoProc
  /\ statusBar = setStatus([statusBar |-> [NoBar EXCEPT !.exists = TRUE]],
                           statusMessages.noConfig).statusBar
  /\ currentWireguardPath = NoPath
  /\ isStopping = FALSE
  /\ configFile = NoFile
  /\ proxy = ""
  /\ procs = [pid \in Pids |-> Unspawned]
  /\ spawned = 0
  /\ ready = <<>>
  /\ errorMessages = <<>>
  /\ host = "active"
  /\ selections = 0
  /\ lastFile = NoPath

ConfigWrite ==
  /\ host = "active"
  /\ \E p \in AnyPaths : Becomes(updateConfig(State, p))

ConfigClear ==
  /\ host = "active"
  /\ Becomes(resetConfig(State))

ConfigNext == ConfigWrite \/ ConfigClear
ConfigSpec == ConfigInit /\ [][ConfigNext]_vars

\* ------------------------------------------------------------- vocabulary
Status == IF statusBar.exists THEN getStatusFromText(statusBar.text) ELSE "None"
Alive(pid) == procs[pid].phase = "running"

TypeOK ==
  /\ wireproxyProcess \in Pids \cup {NoProc}
  /\ isStopping \in BOOLEAN
  /\ proxy \in {"", ProxyUrl}
  /\ spawned \in 0..MaxProcs
  /\ selections \in 0..MaxSelections
  /\ lastFile \in Paths \cup {NoPath}
  /\ host \in {"inactive", "active", "failed", "deactivated"}
  /\ Status \in {"None", "Connected", "No Config", "Error", "Starting"}
  /\ \A pid \in Pids : (procs[pid].phase = "unspawned") <=> (pid > spawned)

\* ----------------------------------------------------------------- steps
Spawns(pid) == procs[pid].phase = "unspawned" /\ procs'[pid].phase # "unspawned"
ExitEvent(pid) == procs[pid].phase = "running" /\ procs'[pid].phase = "exited"
ErrorEvent(pid) == procs[pid].phase = "spawnfail" /\ procs'[pid].phase = "errored"
TimerFires(pid) == procs[pid].timer = "armed" /\ procs'[pid].timer = "fired"
DialogAnswered == selections' = selections + 1
Deactivates == host = "active" /\ host' = "deactivated"
NoneAlive == \A pid \in Pids : ~Alive(pid)
\* no selectConfig call is suspended at its await or about to resume
NoSelectionPending ==
  /\ ready = <<>>
  /\ \A pid \in Pids : continuations(procs[pid].listeners) = <<>>

\* C1: at most one spawned wireproxy process is alive in every reachable state.
C1_AtMostOneAlive == Cardinality({pid \in Pids : Alive(pid)}) <= 1

\* C2: a process that is alive when startWireproxy is called has had its close
\* event delivered by the time the new process is spawned.
C2_StopBeforeStart ==
  [][\A a, b \in Pids : (Spawns(b) /\ Alive(a)) => procs'[a].phase = "closed"]_vars

\* C3: once stopWireproxy has signalled a live process, the exit event of that
\* process shows no error message, does not set status Error and does not
\* delete the persisted config, whatever code or signal it reports.
C3_IntentionalStopNoError ==
  [][\A pid \in Pids :
       (procs[pid].killed /\ ExitEvent(pid)) =>
         /\ errorMessages' = errorMessages
         /\ (Status' = "Error" => Status = "Error")
         /\ (configFile.exists => configFile'.exists)]_vars

\* C4: with no persisted config at activation, after the one selected endpoint's
\* process has crashed (non-zero code or a signal, no stop requested) and its
\* exit observer, close event and stability timer have all run, the config file
\* does not exist and status is No Config.
C4_NewConfigCrashClears ==
  (/\ selections = 1
   /\ spawned = 1
   /\ procs[1].isNewConfig
   /\ ~procs[1].killed
   /\ procs[1].phase = "closed"
   /\ procs[1].errCode = ""
   /\ procs[1].exitCode # 0
   /\ procs[1].timer = "fired"
   /\ NoSelectionPending)
  => (~configFile.exists /\ Status = "No Config")

\* C5: after a start with isNewConfig = TRUE whose spawn failed (error event),
\* once the error handler and that start's stability timer have run and no
\* later selection was made, the config file does not exist and status is
\* No Config.
C5_NewConfigSpawnFailureClears ==
  \A pid \in Pids :
    (/\ pid = spawned
     /\ procs[pid].isNewConfig
     /\ procs[pid].errCode # ""
     /\ procs[pid].phase \in {"errored", "closed"}
     /\ procs[pid].timer = "fired"
     /\ selections = Cardinality({q \in Pids : procs[q].isNewConfig})
     /\ NoSelectionPending)
    => (~configFile.exists /\ Status = "No Config")

\* C6: when activation started the process of a persisted config, then after
\* any failure of that start (synchronous spawn exception, error event, crash
\* exit) and all its handlers, with no selection and no stop requested since,
\* the config file still names the same endpoint and status is Error.
C6_ExistingConfigFailurePreserves ==
  (\/ host = "failed"
   \/ /\ selections = 0
      /\ spawned = 1
      /\ ~procs[1].killed
      /\ procs[1].phase = "closed"
      /\ procs[1].timer = "fired"
      /\ (procs[1].errCode # "" \/ procs[1].exitCode # 0))
  => /\ configFile.exists
     /\ getWireguardPath(configFile) = currentWireguardPath
     /\ currentWireguardPath \in Paths
     /\ Status = "Error"

\* C7: a process that exits or reports an error before its stability timer has
\* fired never makes status Connected, neither in its exit observer nor when
\* its timer fires later.
C7_EarlyExitNeverConnected ==
  [][\A pid \in Pids :
       (\/ (ExitEvent(pid) /\ procs[pid].timer = "armed")
        \/ (TimerFires(pid) /\ ~Alive(pid)))
       => (Status' = "Connected" => Status = "Connected")]_vars

\* C8: when the stability timer of a start fires while that start's process is
\* alive, status goes from Starting to Connected in that step (and was not
\* Connected before it).
C8_SurvivorConnectsAtWindow ==
  [][\A pid \in Pids :
       (TimerFires(pid) /\ Alive(pid)) =>
         (Status = "Starting" /\ Status' = "Connected")]_vars

\* C9: a stopWireproxy call (from deactivate or from selectConfig) made while no
\* process is alive resolves at once and changes nothing: handle, flag, proxy,
\* status, persisted config and the process objects (signals, listeners).
C9_IdempotentStop ==
  [][((Deactivates \/ DialogAnswered) /\ NoneAlive) =>
       /\ UNCHANGED <<wireproxyProcess, isStopping, proxy, statusBar,
                      configFile, procs>>]_vars

\* C10: a stopWireproxy call awaited by selectConfig while the held process is
\* still alive does not resolve in the step that makes the call; it resolves
\* only by the close event of that process.
C10_StopResolvesOnClose ==
  [][(DialogAnswered /\ wireproxyProcess # NoProc /\ Alive(wireproxyProcess))
       => ready' = <<>>]_vars

\* C11: what getWireguardPath reads from the file is the path updateConfig
\* last wrote (the in-memory pointer), and nothing (NoPath) after resetConfig
\* or before any write; resetConfig on an absent file leaves it absent.
C11_ConfigRoundTrip ==
  /\ getWireguardPath(configFile) = currentWireguardPath
  /\ (currentWireguardPath = NoPath <=> ~configFile.exists)

\* no job is queued, no stop is waiting for a close event, every close event
\* has been delivered and every stability timer has fired
Quiescent ==
  /\ Idle
  /\ \A pid \in Pids :
       /\ procs[pid].listeners = <<>>
       /\ procs[pid].timer # "armed"
       /\ procs[pid].phase \notin {"exited", "errored"}

\* C12: in every quiescent state the http.proxy setting is the local proxy URL
\* exactly when a process is alive, and the empty string otherwise.
C12_ProxyMirrorsProcess ==
  Quiescent => /\ proxy \in {"", ProxyUrl}
               /\ (proxy = ProxyUrl <=> \E pid \in Pids : Alive(pid))

\* C13: a file dialog that returns the current endpoint path changes nothing:
\* handle, status bar, in-memory path, flag, config file, proxy, process
\* objects (signals, listeners), queued continuations, messages.
C13_SamePathNoOp ==
  [][(DialogAnswered /\ lastFile' # NoPath /\ lastFile' = currentWireguardPath)
       => UNCHANGED <<wireproxyProcess, statusBar, currentWireguardPath,
                      isStopping, configFile, proxy, procs, spawned, ready,
                      errorMessages, host>>]_vars

\* the only dialog answered so far returned the path of the config started at
\* activation, after that start had failed (status Error)
C13_Witness ==
  /\ selections = 1
  /\ spawned = 1
  /\ ~procs[1].isNewConfig
  /\ lastFile # NoPath
  /\ lastFile = currentWireguardPath
  /\ NoSelectionPending
  /\ Status = "Error"

\* C14: in every quiescent state the module holds no handle of a process that
\* is not alive.
C14_NoDeadHandle ==
  Quiescent => (wireproxyProcess # NoProc => Alive(wireproxyProcess))

\* C15: a stability timer that fires when the process of its own start is no
\* longer alive (exited, spawn failed, or closed) changes nothing: status bar,
\* config file, in-memory path, proxy, handle.
C15_TimerNoOpAfterExit ==
  [][\A pid \in Pids :
       (TimerFires(pid) /\ ~Alive(pid)) =>
         UNCHANGED <<statusBar, configFile, currentWireguardPath, proxy,
                     wireproxyProcess>>]_vars

\* C16: when a process that no stop has signalled exits with code 0 while
\* status is Connected, status becomes Error.
C16_CleanExitLeavesConnected ==
  [][\A pid \in Pids :
       (ExitEvent(pid) /\ procs'[pid].exitCode = 0 /\ ~procs[pid].killed
          /\ Status = "Connected")
       => Status' = "Error"]_vars

\* messages shown for process pid
MessagesOf(pid) == {i \in 1..Len(errorMessages) : errorMessages[i].proc = pid}
\* pid failed (spawn failure, non-zero code or a signal), its observer has run
Failed(pid) ==
  /\ procs[pid].phase \in {"exited", "errored", "closed"}
  /\ (procs[pid].errCode # "" \/ procs[pid].exitCode # 0)

\* C17: every process that failed without a stop having signalled it has
\* exactly one error message.
C17_FailureReportedOnce ==
  \A pid \in Pids :
    (Failed(pid) /\ ~procs[pid].killed) => Cardinality(MessagesOf(pid)) = 1

\* C18: a selectConfig call suspended in "await stopWireproxy()" always waits
\* for a close event that is still to come, so that it resumes (persists the
\* new config and calls spawn) once the process closes.
C18_SelectionNotStuck ==
  \A pid \in Pids :
    continuations(procs[pid].listeners) # <<>> => procs[pid].phase # "closed"

\* C19: whenever status is Connected, the name in the status text is the
\* profile name of the current endpoint path.
C19_ConnectedLabelIsCurrent ==
  Status = "Connected" =>
    statusBar.text = checkText(getProfileName(currentWireguardPath))

\* C20: status Starting does not last: while it shows, the stability timer of
\* the latest start (a new-config start) is still armed, every new-config
\* timer that fires leaves status Connected or No Config, and under FairSpec
\* (timers fire) Starting always leads to another status.
C20_StartingIsTransient ==
  /\ [](Status = "Starting" =>
          /\ spawned > 0
          /\ procs[spawned].isNewConfig
          /\ procs[spawned].timer = "armed")
  /\ [][\A pid \in Pids :
          (TimerFires(pid) /\ procs[pid].isNewConfig)
            => Status' \in {"Connected", "No Config"}]_vars
  /\ ((Status = "Starting") ~> (Status # "Starting"))

\* the timer of a new-config start has fired on status Starting's watch: the
\* start's process is alive and status is Connected, or it is gone and status
\* is No Config
C20_Witness ==
  \E pid \in Pids :
    /\ procs[pid].isNewConfig
    /\ procs[pid].timer = "fired"
    /\ pid = spawned
    /\ \/ (Alive(pid) /\ Status = "Connected")
       \/ (procs[pid].phase = "closed" /\ procs[pid].exitCode = 1
             /\ Status = "No Config")

====
